---- MODULE Spec2Model ----
(***************************************************************************)
(* A model of src/src/index.ts, the space-data agent: the fetchJSON helper *)
(* (one AbortController and one timeout timer per call), the fan-out       *)
(* handlers 'overview' and 'report' (several fetchJSON calls joined with   *)
(* Promise.all), and the 'asteroids' handler (flatten, sort by miss        *)
(* distance, slice).                                                       *)
(*                                                                         *)
(* JavaScript runs one macrotask at a time: each action below is one       *)
(* macrotask (a handler invocation, a network event, a timer callback)     *)
(* together with all the promise reactions (microtasks) it triggers.       *)
(***************************************************************************)
EXTENDS Integers, Sequences, FiniteSets

\* ------------------------------------------------------------- bounds
MaxHandlers == 2      \* handler invocations in one behaviour
MaxCalls == 4         \* fetchJSON calls started in one behaviour
MaxDates == 2         \* date keys of a NEO feed
MaxPerDate == 2       \* objects listed under one date
MaxDigit == 2         \* largest digit of a miss-distance string

\* -------------------------------------------------- program constants
DefaultTimeout == 30000
IssTimeout == 15000
MaxSlots == 4
SliceLimit == 20

VARIABLES
    calls,        \* every fetchJSON call: <<handler, position>> -> its state
    handlers,     \* every handler invocation
    feed,         \* what the NEO feed upstream serves (near_earth_objects)
    asteroidsOut  \* the output of the 'asteroids' handler

vars == <<calls, handlers, feed, asteroidsOut>>

HandlerIds == 1..MaxHandlers
Slots == 1..MaxSlots
CallIds == HandlerIds \X Slots

\* ------------------------------------------------------------- values
\* A JSON value as the handlers see it: the upstream it came from and whether it
\* has the fields the handler reads ("ok") or is an object without them ("bad").
Undefined == [src |-> "undefined", shape |-> "undefined"]
Null == [src |-> "null", shape |-> "null"]
Body(url, shape) == [src |-> url, shape |-> shape]
Truthy(v) == v # Undefined /\ v # Null
Shapes == {"ok", "bad"}

Max(a, b) == IF a >= b THEN a ELSE b

\* ---------------------------------------------------------- fetchJSON
IdleCall ==
    [pc |-> "idle", url |-> "none", timeout |-> 0, timer |-> "unset",
     left |-> 0, aborted |-> FALSE, fetchCount |-> 0, stalled |-> FALSE,
     value |-> Undefined, error |-> "none"]

\* setTimeout(cb, timeout): a delay below zero is run as soon as possible.
TimerDelay(timeout) == Max(timeout, 0)

\* Lines 25-29 up to the await: a controller, a timer, one fetch() invocation.
\* left is the time in ms until the armed timer is due.
FetchJSONStart(url, timeout) ==
    [pc |-> "await_fetch", url |-> url, timeout |-> timeout, timer |-> "armed",
     left |-> TimerDelay(timeout), aborted |-> FALSE, fetchCount |-> 1,
     stalled |-> FALSE, value |-> Undefined, error |-> "none"]

\* clearTimeout(timeoutId): cancels the timer when it has not fired yet.
ClearTimeout(call) ==
    IF call.timer = "armed" THEN [call EXCEPT !.timer = "cleared", !.left = 0] ELSE call

\* Faulty variant of CatchBlock: the catch block rethrows without clearing the timer.
CatchBlockNoClear(call, err) ==
    [call EXCEPT !.pc = "rejected", !.error = err, !.stalled = FALSE]

\* Lines 33-36: the catch block clears the timer and rethrows. The request is
\* over: stalled describes the upstream of a request in flight only.
CatchBlock(call, err) ==
    [ClearTimeout(call) EXCEPT !.pc = "rejected", !.error = err, !.stalled = FALSE]

\* Faulty variant of AbortTarget: one controller variable shared by all calls, so that
\* a timer callback aborts the controller of the call started last.
AbortTargetLatest(c) ==
    CHOOSE d \in CallIds :
        /\ calls[d].pc # "idle"
        /\ \A e \in CallIds :
              calls[e].pc # "idle" => e[1] * MaxSlots + e[2] <= d[1] * MaxSlots + d[2]

\* Line 26: the controller that the timer callback of call c aborts.
AbortTarget(c) == c

Pending(call) == call.pc \in {"await_fetch", "await_json"}
Settled(call) == call.pc \in {"fulfilled", "rejected"}
Started(call) == call.pc # "idle"

\* ----------------------------------------------------------- handlers
\* A promise of a handler's fan-out: the upstream, the timeout argument, and
\* whether the handler chains .catch(() => null) on it.
Promise(url, timeout, caught) == [url |-> url, timeout |-> timeout, caught |-> caught]

\* Faulty variant of IssPromise: the ISS fetch without its .catch(() => null).
IssPromiseUncaught == Promise("iss", IssTimeout, FALSE)

\* Line 211: fetchJSON(iss-now, 15000).catch(() => null)
IssPromise == Promise("iss", IssTimeout, TRUE)

\* Lines 45-48: [astros, apod]
OverviewPromises ==
    <<Promise("astros", DefaultTimeout, FALSE), Promise("apod", DefaultTimeout, FALSE)>>

\* Lines 208-220: [apod, astros, iss] and, when includeAsteroids, neo
ReportPromises(includeAsteroids) ==
    <<Promise("apod", DefaultTimeout, FALSE), Promise("astros", DefaultTimeout, FALSE),
      IssPromise>>
    \o (IF includeAsteroids THEN <<Promise("neo", DefaultTimeout, FALSE)>> ELSE <<>>)

\* Lines 138-140: the single awaited call of the 'asteroids' handler
AsteroidsPromises == <<Promise("neo", DefaultTimeout, FALSE)>>

Promises(h) ==
    CASE h.kind = "overview" -> OverviewPromises
      [] h.kind = "report" -> ReportPromises(h.includeAsteroids)
      [] h.kind = "asteroids" -> AsteroidsPromises
      [] OTHER -> <<Promise("any", h.timeoutArg, FALSE)>>

NoBinding == [apod |-> Undefined, astros |-> Undefined, iss |-> Undefined, neo |-> Undefined]

IdleHandler ==
    [kind |-> "none", includeAsteroids |-> FALSE, timeoutArg |-> 0, n |-> 0,
     status |-> "idle", reason |-> "none", joined |-> "none",
     values |-> [s \in Slots |-> Undefined], remaining |-> 0, outOfOrder |-> FALSE,
     bind |-> NoBinding, issLocation |-> "none", nearEarthObjects |-> "none"]

StartHandler(kind, includeAsteroids, timeoutArg, n) ==
    [IdleHandler EXCEPT !.kind = kind, !.includeAsteroids = includeAsteroids,
                        !.timeoutArg = timeoutArg, !.n = n, !.status = "pending",
                        !.joined = "pending", !.remaining = n]

\* Faulty variant of ResolveElement: the values are collected in completion order.
ResolveElementByArrival(values, index, v) ==
    [values EXCEPT ![CHOOSE i \in Slots :
                        values[i] = Undefined /\ \A j \in 1..(i - 1) : values[j] # Undefined] = v]

\* Promise.all's resolve element function: the value goes to the promise's index.
ResolveElement(values, index, v) == [values EXCEPT ![index] = v]

\* Line 45: const [astros, apod] = await Promise.all([...])
OverviewDestructure(values) ==
    [NoBinding EXCEPT !.astros = values[1], !.apod = values[2]]

\* Line 222: const [apod, astros, iss, neo] = await Promise.all(promises)
ReportDestructure(values) ==
    [apod |-> values[1], astros |-> values[2], iss |-> values[3], neo |-> values[4]]

\* Lines 50-59: astros.people.map throws on a body without people; apod.title
\* and apod.date of a body without them are undefined.
OverviewBody(h) ==
    LET b == OverviewDestructure(h.values)
    IN  IF b.astros.shape # "ok"
        THEN [h EXCEPT !.bind = b, !.status = "rejected", !.reason = "type_error"]
        ELSE [h EXCEPT !.bind = b, !.status = "fulfilled"]

\* Lines 224-276: the property reads that throw on a body without the fields.
ReportBody(h) ==
    LET b == ReportDestructure(h.values)
        throws == \/ b.astros.shape # "ok"
                  \/ Truthy(b.neo) /\ b.neo.shape # "ok"
                  \/ b.apod.shape # "ok"
                  \/ Truthy(b.iss) /\ b.iss.shape # "ok"
    IN  IF throws
        THEN [h EXCEPT !.bind = b, !.status = "rejected", !.reason = "type_error"]
        ELSE [h EXCEPT !.bind = b, !.status = "fulfilled",
                       !.issLocation = IF Truthy(b.iss) THEN "position" ELSE "unavailable",
                       !.nearEarthObjects = IF Truthy(b.neo) THEN "summary" ELSE "null"]

\* Lines 142-173: Object.entries(data.near_earth_objects) throws on a body
\* without near_earth_objects.
AsteroidsBody(h) ==
    IF h.values[1].shape # "ok"
    THEN [h EXCEPT !.status = "rejected", !.reason = "type_error"]
    ELSE [h EXCEPT !.status = "fulfilled"]

HandlerBody(h) ==
    CASE h.kind = "overview" -> OverviewBody(h)
      [] h.kind = "report" -> ReportBody(h)
      [] h.kind = "asteroids" -> AsteroidsBody(h)
      [] OTHER -> [h EXCEPT !.status = "fulfilled"]

\* What the promise at position pos of the handler's array settles to once its
\* fetchJSON call has settled: .catch(() => null) turns a rejection into null.
ElementOutcome(h, pos, call) ==
    IF call.pc = "rejected"
    THEN IF Promises(h)[pos].caught
         THEN [state |-> "fulfilled", value |-> Null]
         ELSE [state |-> "rejected", value |-> Undefined]
    ELSE [state |-> "fulfilled", value |-> call.value]

\* Promise.all (lines 45, 222) and the await on it: the first rejection rejects
\* the join and with it the handler; the last fulfilment fulfils the join and
\* the handler's body runs. outOfOrder is a history field: some promise was
\* fulfilled before one that precedes it in the array.
OnSettled(h, pos, call) ==
    LET out == ElementOutcome(h, pos, call)
    IN  IF out.state = "rejected"
        THEN IF h.joined = "pending"
             THEN [h EXCEPT !.joined = "rejected", !.status = "rejected",
                            !.reason = "fetch_failed"]
             ELSE h
        ELSE LET h1 == [h EXCEPT !.values = ResolveElement(h.values, pos, out.value),
                                 !.remaining = h.remaining - 1,
                                 !.outOfOrder = h.outOfOrder
                                     \/ \E q \in 1..(pos - 1) : h.values[q] = Undefined]
             IN  IF h1.remaining = 0 /\ h.joined = "pending"
                 THEN HandlerBody([h1 EXCEPT !.joined = "fulfilled"])
                 ELSE h1

\* ---------------------------------------------------- asteroids handler
\* JavaScript numbers as the handler meets them: a finite number, NaN, the two
\* infinities, and null (no close-approach entry).
Num(n) == [kind |-> "num", n |-> n]
NaN == [kind |-> "nan", n |-> 0]
Infinity == [kind |-> "inf", n |-> 0]
NegInfinity == [kind |-> "ninf", n |-> 0]
NullNum == [kind |-> "null", n |-> 0]

RECURSIVE DigitsValue(_)
DigitsValue(str) ==
    IF str = <<>> THEN 0 ELSE 10 * DigitsValue(SubSeq(str, 1, Len(str) - 1)) + str[Len(str)]

\* parseFloat of a string of decimal digits; the empty string parses to NaN.
ParseFloat(str) == IF str = <<>> THEN NaN ELSE Num(DigitsValue(str))

\* x || Infinity: null, NaN and 0 are falsy.
OrInfinity(x) ==
    IF x.kind \in {"null", "nan"} \/ (x.kind = "num" /\ x.n = 0) THEN Infinity ELSE x

\* a - b on numbers and infinities
Minus(a, b) ==
    CASE a.kind = "num" /\ b.kind = "num" -> Num(a.n - b.n)
      [] a.kind = "inf" /\ b.kind = "inf" -> NaN
      [] a.kind = "inf" -> Infinity
      [] b.kind = "inf" -> NegInfinity
      [] OTHER -> NaN

\* Line 162: the comparator handed to sort
Comparator(a, b) == Minus(OrInfinity(a.missDistance_km), OrInfinity(b.missDistance_km))

\* Array.prototype.sort reads the comparator's result as a sign; NaN reads as 0.
SortCompare(a, b) ==
    LET v == Comparator(a, b)
    IN  CASE v.kind = "nan" -> 0
          [] v.kind = "inf" -> 1
          [] v.kind = "ninf" -> -1
          [] OTHER -> IF v.n > 0 THEN 1 ELSE IF v.n < 0 THEN -1 ELSE 0

\* Array.prototype.sort is stable: an element moves left only past elements
\* that compare greater.
RECURSIVE Insert(_, _)
Insert(sorted, x) ==
    IF sorted = <<>> THEN <<x>>
    ELSE IF SortCompare(sorted[Len(sorted)], x) > 0
         THEN Insert(SubSeq(sorted, 1, Len(sorted) - 1), x) \o <<sorted[Len(sorted)]>>
         ELSE sorted \o <<x>>

RECURSIVE Sort(_)
Sort(list) ==
    IF list = <<>> THEN <<>>
    ELSE Insert(Sort(SubSeq(list, 1, Len(list) - 1)), list[Len(list)])

\* Lines 146-158: one record per object; approach is close_approach_data[0].
AsteroidRecord(neo) ==
    [id |-> neo.id, isPotentiallyHazardous |-> neo.hazardous,
     missDistance_km |-> IF neo.close_approach_data # <<>>
                         THEN ParseFloat(neo.close_approach_data[1])
                         ELSE NullNum]

\* Lines 143-160: the dates in Object.entries order, the objects in array order.
RECURSIVE Flatten(_)
Flatten(neoByDate) ==
    IF neoByDate = <<>> THEN <<>>
    ELSE Flatten(SubSeq(neoByDate, 1, Len(neoByDate) - 1))
         \o [i \in 1..Len(neoByDate[Len(neoByDate)]) |->
                AsteroidRecord(neoByDate[Len(neoByDate)][i])]

Slice(list, limit) == SubSeq(list, 1, IF Len(list) < limit THEN Len(list) ELSE limit)

NoOutput ==
    [done |-> FALSE, input |-> <<>>, sorted |-> <<>>, hazardousCount |-> 0,
     closestApproach |-> <<>>, asteroids |-> <<>>]

\* Lines 162-173. closestApproach is a list of at most one record: empty is null.
AsteroidsOutput(neoByDate) ==
    LET sorted == Sort(Flatten(neoByDate))
    IN  [done |-> TRUE, input |-> Flatten(neoByDate), sorted |-> sorted,
         hazardousCount |-> Cardinality({i \in 1..Len(sorted) : sorted[i].isPotentiallyHazardous}),
         closestApproach |-> Slice(sorted, 1),
         asteroids |-> Slice(sorted, SliceLimit)]

\* The feeds the upstream may serve: an object's miss distance is a string of
\* one decimal digit, or its close_approach_data is empty.
SeqsUpTo(S, n) == UNION {[1..k -> S] : k \in 0..n}
KmStrings == {<<d>> : d \in 0..MaxDigit}
RawNeos == [hazardous : BOOLEAN, close_approach_data : SeqsUpTo(KmStrings, 1)]
WithIds(f) ==
    [d \in 1..Len(f) |->
        [i \in 1..Len(f[d]) |->
            [id |-> (d - 1) * MaxPerDate + i, hazardous |-> f[d][i].hazardous,
             close_approach_data |-> f[d][i].close_approach_data]]]
Feeds == {WithIds(f) : f \in SeqsUpTo(SeqsUpTo(RawNeos, MaxPerDate), MaxDates)}

\* ------------------------------------------------------------ actions
StartedCalls == Cardinality({c \in CallIds : Started(calls[c])})

\* A handler invocation runs to its await: every fetchJSON call of its fan-out
\* has created its controller, armed its timer and invoked fetch.
Invoke(h, handler) ==
    /\ handlers[h].kind = "none"
    /\ \A g \in 1..(h - 1) : handlers[g].kind # "none"
    /\ StartedCalls + handler.n <= MaxCalls
    /\ handlers' = [handlers EXCEPT ![h] = handler]
    /\ calls' = [c \in CallIds |->
                    IF c[1] = h /\ c[2] <= handler.n
                    THEN FetchJSONStart(Promises(handler)[c[2]].url,
                                        Promises(handler)[c[2]].timeout)
                    ELSE calls[c]]
    /\ UNCHANGED <<feed, asteroidsOut>>

InvokeOverview(h) == Invoke(h, StartHandler("overview", FALSE, 0, Len(OverviewPromises)))

InvokeReport(h, includeAsteroids) ==
    Invoke(h, StartHandler("report", includeAsteroids, 0, Len(ReportPromises(includeAsteroids))))

InvokeAsteroids(h) == Invoke(h, StartHandler("asteroids", FALSE, 0, Len(AsteroidsPromises)))

\* fetchJSON(url, timeout) called on its own
InvokeFetchJSON(h, timeout) == Invoke(h, StartHandler("fetchJSON", FALSE, timeout, 1))

\* Call d moves to newCall (base holds what else the step changed in calls);
\* when that settles d, the promise reactions of its handler run.
Apply(d, newCall, base) ==
    LET h == IF Settled(newCall) /\ ~Settled(calls[d])
             THEN OnSettled(handlers[d[1]], d[2], newCall)
             ELSE handlers[d[1]]
    IN  /\ calls' = [base EXCEPT ![d] = newCall]
        /\ handlers' = [handlers EXCEPT ![d[1]] = h]
        /\ asteroidsOut' = IF h.kind = "asteroids" /\ h.status = "fulfilled"
                                /\ handlers[d[1]].status # "fulfilled"
                           THEN AsteroidsOutput(feed)
                           ELSE asteroidsOut
        /\ UNCHANGED feed

\* Lines 29-32: the response arrives with an ok status; the timer is cleared and
\* response.json() is returned, still reading the body.
ResponseOk(c) ==
    /\ calls[c].pc = "await_fetch" /\ ~calls[c].stalled
    /\ Apply(c, [ClearTimeout(calls[c]) EXCEPT !.pc = "await_json"], calls)

\* Lines 29-31, 33-35: a non-ok status throws after the timer was cleared.
ResponseNotOk(c) ==
    /\ calls[c].pc = "await_fetch" /\ ~calls[c].stalled
    /\ Apply(c, CatchBlock(ClearTimeout(calls[c]), "api"), calls)

\* Lines 29, 33-35: fetch rejects (connection, DNS).
NetworkError(c) ==
    /\ calls[c].pc = "await_fetch" /\ ~calls[c].stalled
    /\ Apply(c, CatchBlock(calls[c], "network"), calls)

\* The upstream stops delivering: no further response or body event for c.
Stall(c) ==
    /\ Pending(calls[c]) /\ ~calls[c].stalled
    /\ Apply(c, [calls[c] EXCEPT !.stalled = TRUE], calls)

\* Line 32: the body is complete and parses.
BodyJson(c, shape) ==
    /\ calls[c].pc = "await_json" /\ ~calls[c].stalled
    /\ Apply(c, [calls[c] EXCEPT !.pc = "fulfilled", !.value = Body(calls[c].url, shape)], calls)

\* Line 32: the body is not JSON; the returned promise rejects outside the try.
BodyParseError(c) ==
    /\ calls[c].pc = "await_json" /\ ~calls[c].stalled
    /\ Apply(c, [calls[c] EXCEPT !.pc = "rejected", !.error = "parse"], calls)

\* Line 26: the timer callback runs controller.abort(); a fetch still awaited
\* on that controller's signal rejects into the catch block, a body still being
\* read on it rejects the returned promise.
TimerFire(c) ==
    /\ calls[c].timer = "armed" /\ calls[c].left = 0
    /\ LET d == AbortTarget(c)
           base == [calls EXCEPT ![c].timer = "fired"]
           hit == [base[d] EXCEPT !.aborted = TRUE]
       IN  Apply(d,
                 CASE hit.pc = "await_fetch" -> CatchBlock(hit, "abort")
                   [] hit.pc = "await_json" -> [hit EXCEPT !.pc = "rejected", !.error = "abort",
                                                             !.stalled = FALSE]
                   [] OTHER -> hit,
                 base)

\* Time passes until the next armed timer is due, once every due timer has run.
Armed == {c \in CallIds : calls[c].timer = "armed"}
AdvanceTime ==
    /\ Armed # {}
    /\ \A c \in Armed : calls[c].left > 0
    /\ LET step == CHOOSE t \in {calls[c].left : c \in Armed} :
                       \A c \in Armed : t <= calls[c].left
       IN  calls' = [c \in CallIds |->
                        IF c \in Armed THEN [calls[c] EXCEPT !.left = @ - step] ELSE calls[c]]
    /\ UNCHANGED <<handlers, feed, asteroidsOut>>

CallEvent(c) ==
    \/ ResponseOk(c)
    \/ ResponseNotOk(c)
    \/ NetworkError(c)
    \/ Stall(c)
    \/ \E shape \in Shapes : BodyJson(c, shape)
    \/ BodyParseError(c)
    \/ TimerFire(c)

\* --------------------------------------------------- specifications
InitCommon ==
    /\ calls = [c \in CallIds |-> IdleCall]
    /\ handlers = [h \in HandlerIds |-> IdleHandler]
    /\ asteroidsOut = NoOutput

\* The fan-out handlers 'overview' and 'report', invoked concurrently.
Init == InitCommon /\ feed = <<>>

Next ==
    \/ \E h \in HandlerIds : InvokeOverview(h)
    \/ \E h \in HandlerIds, includeAsteroids \in BOOLEAN : InvokeReport(h, includeAsteroids)
    \/ \E c \in CallIds : CallEvent(c)
    \/ AdvanceTime

Spec == Init /\ [][Next]_vars

\* fetchJSON(url, timeout) on its own, for every timeout argument.
TimeoutArgs == {-1, 0, IssTimeout, DefaultTimeout}

NextFetchJSON ==
    \/ \E h \in HandlerIds, timeout \in TimeoutArgs : InvokeFetchJSON(h, timeout)
    \/ \E c \in CallIds : CallEvent(c)
    \/ AdvanceTime

SpecFetchJSON == Init /\ [][NextFetchJSON]_vars

\* One invocation of the 'asteroids' handler, for every feed.
InitAsteroids == InitCommon /\ feed \in Feeds

NextAsteroids ==
    \/ InvokeAsteroids(1)
    \/ \E c \in CallIds : CallEvent(c)
    \/ AdvanceTime

SpecAsteroids == InitAsteroids /\ [][NextAsteroids]_vars

\* ------------------------------------------------------------- claims
FanOut(h) == handlers[h].kind \in {"overview", "report"}
Positions(h) == 1..handlers[h].n
Completed(h) == handlers[h].status \in {"fulfilled", "rejected"}
AllSettled(h) == \A pos \in Positions(h) : Settled(calls[<<h, pos>>])
Failed(h, pos) == calls[<<h, pos>>].pc = "rejected"
\* Every body delivered to the handler so far has the fields the handler reads.
WellFormed(h) ==
    \A pos \in Positions(h) :
        calls[<<h, pos>>].pc = "fulfilled" => calls[<<h, pos>>].value.shape = "ok"

\* C1: a fan-out handler has completed (returned or rejected) only when every
\* fetchJSON call it started has settled.
C1_JoinWaitsForAll ==
    \A h \in HandlerIds : FanOut(h) /\ Completed(h) => AllSettled(h)

\* C2: a fan-out handler never rejects because a fetchJSON call failed; once
\* all its calls have settled (bodies well-formed) it has returned a result in
\* which each failed fetch is recorded as a failure value.
C2_FailuresCapturedNotThrown ==
    \A h \in HandlerIds :
        FanOut(h) =>
            /\ handlers[h].reason # "fetch_failed"
            /\ AllSettled(h) /\ WellFormed(h) =>
                  /\ handlers[h].status = "fulfilled"
                  /\ \A pos \in Positions(h) : Failed(h, pos) => handlers[h].values[pos] = Null

\* C3: in every step, a call's abort signal fires only when that call's own
\* armed timer expires, and a step in which another call fails or another
\* call's timer expires leaves an in-flight call untouched.
FailsNow(a) == Pending(calls[a]) /\ calls'[a].pc = "rejected"
TimerExpiresNow(a) == calls[a].timer = "armed" /\ calls'[a].timer = "fired"
IsolationStep ==
    \A a \in CallIds :
        /\ (~calls[a].aborted /\ calls'[a].aborted) =>
              /\ TimerExpiresNow(a)
              /\ calls[a].left = 0
        /\ (FailsNow(a) \/ TimerExpiresNow(a)) =>
              \A b \in CallIds \ {a} : Pending(calls[b]) => calls'[b] = calls[b]
C3_Isolation == [][IsolationStep]_vars

\* C3 witness: a call has been aborted by its timeout while a call of the same
\* handler and a call of another handler are still in flight, not aborted.
C3_Witness ==
    \E a \in CallIds, b \in CallIds, c \in CallIds :
        /\ calls[a].error = "abort" /\ calls[a].aborted
        /\ b # a /\ b[1] = a[1] /\ c[1] # a[1]
        /\ calls[b].pc = "await_fetch" /\ ~calls[b].aborted
        /\ calls[c].pc = "await_fetch" /\ ~calls[c].aborted

\* C4: a pending call whose upstream has stalled, at whatever stage, is still
\* guarded by its armed timer, so that its timeout will abort it.
C4_TimeoutBoundsEveryFetch ==
    \A c \in CallIds : Pending(calls[c]) /\ calls[c].stalled => calls[c].timer = "armed"

\* C5: with well-formed bodies, 'report' is rejected iff a required fetch
\* (APOD, astros, NEO when included) has failed; when the ISS fetch is the only
\* failure it returns issLocation = 'unavailable' and the other sections are
\* built from the successful fetches.
Required(h) == {1, 2} \cup (IF handlers[h].includeAsteroids THEN {4} ELSE {})
IssPosition == 3
C5_RequiredVsOptional ==
    \A h \in HandlerIds :
        handlers[h].kind = "report" /\ WellFormed(h) =>
            /\ handlers[h].status = "rejected" <=> \E pos \in Required(h) : Failed(h, pos)
            /\ handlers[h].status = "fulfilled" /\ Failed(h, IssPosition) =>
                  handlers[h].issLocation = "unavailable"
            /\ AllSettled(h) /\ ~(\E pos \in Required(h) : Failed(h, pos)) =>
                  /\ handlers[h].status = "fulfilled"
                  /\ handlers[h].issLocation =
                        IF Failed(h, IssPosition) THEN "unavailable" ELSE "position"
                  /\ handlers[h].bind.apod = Body("apod", "ok")
                  /\ handlers[h].bind.astros = Body("astros", "ok")
                  /\ handlers[h].nearEarthObjects =
                        IF handlers[h].includeAsteroids THEN "summary" ELSE "null"

\* C5 witness: a report whose ISS fetch is the only failure has returned.
C5_Witness ==
    \E h \in HandlerIds :
        /\ handlers[h].kind = "report" /\ handlers[h].includeAsteroids
        /\ AllSettled(h) /\ WellFormed(h)
        /\ \A pos \in Positions(h) : Failed(h, pos) <=> pos = IssPosition
        /\ handlers[h].status = "fulfilled" /\ handlers[h].issLocation = "unavailable"

\* C6: whatever the completion order, every value of the join sits at the
\* index of the fetch that produced it, one value per started fetch, and after
\* the join apod, astros, iss and neo are bound to the values of their own
\* upstreams; without includeAsteroids neo is undefined.
FromOwnUpstream(h, pos) ==
    LET call == calls[<<h, pos>>]
        v == handlers[h].values[pos]
    IN  CASE call.pc = "fulfilled" -> v = call.value /\ v.src = Promises(handlers[h])[pos].url
          [] call.pc = "rejected" -> v = IF pos = IssPosition /\ handlers[h].kind = "report"
                                         THEN Null ELSE Undefined
          [] OTHER -> v = Undefined
BoundTo(v, url) == v.src = url
C6_AttributionByPosition ==
    \A h \in HandlerIds :
        FanOut(h) =>
            /\ \A pos \in Positions(h) : FromOwnUpstream(h, pos)
            /\ \A pos \in Slots \ Positions(h) : handlers[h].values[pos] = Undefined
            /\ handlers[h].joined = "fulfilled" =>
                  LET b == handlers[h].bind
                  IN  /\ BoundTo(b.apod, "apod")
                      /\ BoundTo(b.astros, "astros")
                      /\ handlers[h].kind = "report" => b.iss = Null \/ BoundTo(b.iss, "iss")
                      /\ handlers[h].kind = "overview" => b.iss = Undefined /\ b.neo = Undefined
                      /\ handlers[h].kind = "report" =>
                            IF handlers[h].includeAsteroids
                            THEN BoundTo(b.neo, "neo") ELSE b.neo = Undefined

\* C6 witness: a report with asteroids has joined after its four fetches
\* completed out of array order, each bound to its own upstream's value.
C6_Witness ==
    \E h \in HandlerIds :
        /\ handlers[h].kind = "report" /\ handlers[h].includeAsteroids
        /\ handlers[h].joined = "fulfilled" /\ handlers[h].outOfOrder
        /\ BoundTo(handlers[h].bind.iss, "iss")
        /\ BoundTo(handlers[h].bind.neo, "neo")

\* C7: a fetchJSON call with a timeout of zero or less never invokes fetch and
\* fails with a configuration error.
C7_NonPositiveTimeoutFailsFast ==
    \A c \in CallIds :
        Started(calls[c]) /\ calls[c].timeout <= 0 =>
            /\ calls[c].fetchCount = 0
            /\ calls[c].pc = "rejected" /\ calls[c].error = "config"

\* C8: in the sorted list of the 'asteroids' handler every record without a
\* miss distance comes after every record with one, and records with equal
\* keys keep their input order.
HasDistance(r) == r.missDistance_km.kind = "num"
InputIndex(r) == CHOOSE i \in 1..Len(asteroidsOut.input) : asteroidsOut.input[i] = r
C8_MissingSortsLast ==
    asteroidsOut.done =>
        LET s == asteroidsOut.sorted
        IN  \A i \in 1..Len(s), j \in 1..Len(s) :
                i < j =>
                    /\ ~(~HasDistance(s[i]) /\ HasDistance(s[j]))
                    /\ s[i].missDistance_km = s[j].missDistance_km =>
                          InputIndex(s[i]) < InputIndex(s[j])

\* C9: the records with a miss distance are in non-decreasing order,
\* closestApproach is null iff the feed is empty and otherwise has the smallest
\* miss distance of the feed, asteroids is the first min(20, n) records, and
\* hazardousCount counts the hazardous records of the whole feed.
C9_ClosestIsMinimum ==
    asteroidsOut.done =>
        LET s == asteroidsOut.sorted
            in == asteroidsOut.input
            withDistance == {i \in 1..Len(s) : HasDistance(s[i])}
        IN  /\ \A i \in withDistance, j \in withDistance :
                  i < j => s[i].missDistance_km.n <= s[j].missDistance_km.n
            /\ asteroidsOut.closestApproach = <<>> <=> in = <<>>
            /\ \A k \in 1..Len(in) :
                  HasDistance(in[k]) =>
                      /\ HasDistance(asteroidsOut.closestApproach[1])
                      /\ asteroidsOut.closestApproach[1].missDistance_km.n <= in[k].missDistance_km.n
            /\ asteroidsOut.asteroids =
                  SubSeq(s, 1, IF Len(in) < SliceLimit THEN Len(in) ELSE SliceLimit)
            /\ asteroidsOut.hazardousCount =
                  Cardinality({k \in 1..Len(in) : in[k].isPotentiallyHazardous})

\* C10: every started call has invoked fetch exactly once; a settled call has
\* no pending timer, and its abort signal has fired only as the cause of its
\* settling, never after it.
C10_TimerHygiene ==
    \A c \in CallIds :
        /\ Started(calls[c]) => calls[c].fetchCount = 1
        /\ ~Started(calls[c]) => calls[c].fetchCount = 0 /\ calls[c].timer = "unset"
        /\ Settled(calls[c]) =>
              /\ calls[c].timer \in {"cleared", "fired"}
              /\ calls[c].aborted <=> calls[c].error = "abort"
              /\ calls[c].aborted <=> calls[c].timer = "fired"

\* C10 witness: calls have settled on each exit path: response ok, non-ok
\* status, network error, abort.
C10_Witness ==
    \E a \in CallIds, b \in CallIds, c \in CallIds, d \in CallIds :
        /\ calls[a].pc = "fulfilled"
        /\ calls[b].error = "api"
        /\ calls[c].error = "network"
        /\ calls[d].error = "abort"

====
